---- MODULE Spec2Model ----
(***************************************************************************)
(* A model of spawnbot, an IRC <-> Discord bridge: the configuration read  *)
(* from the environment, the command dispatcher (package cmdhandler), the  *)
(* two relay handlers, the shutdown signal (a cancellable context), main   *)
(* from start to exit, and the IRC reconnect loop.                         *)
(*                                                                         *)
(* Text is modelled as a sequence of one-character strings, so that prefix *)
(* tests, trimming, splitting and formatting are computed, not assumed.    *)
(***************************************************************************)
EXTENDS Integers, Sequences, FiniteSets, TLC

VARIABLES
    env,          \* the environment of the process, as os.Getenv reads it
    cfg,          \* *AppConfig as returned by LoadConfig
    cmds,         \* CmdHandler.cmds: the registered commands
    ctxDone,      \* ctx.Done() is closed (the Shutdown Signal is cancelled)
    fired,        \* number of live -> cancelled transitions of ctx so far
    cancelCalls,  \* number of calls of cancel() so far (saturating)
    sigSeen,      \* the signal goroutine has received its OS signal
    mainPc,       \* position of main
    ircPc,        \* position of the goroutine running runIRCClient
    ircConn,      \* state of the IRC connection inside Connect
    lateConnects, \* calls of Connect begun while ctx was already cancelled
    connects,     \* calls of Connect begun so far (saturating)
    mainLog,      \* the shutdown calls main has issued, in order
    gap,          \* since the last return of Connect: how it returned, and
                  \* the pause the loop has completed (seconds)
    inbox,        \* per network, the events delivered and not yet handled
    arrived,      \* number of events that have entered inbox
    orderLog,     \* the sends made for the events that came through inbox
    lastEvent,    \* the inbound event last handled
    lastOut       \* what the handler of lastEvent did

vars == <<env, cfg, cmds, ctxDone, fired, cancelCalls, sigSeen, mainPc, ircPc,
          ircConn, lateConnects, connects, mainLog, gap, inbox, arrived,
          orderLog, lastEvent, lastOut>>

\* The variables of the order of arrival and of sending.
orderVars == <<inbox, arrived, orderLog>>

-----------------------------------------------------------------------------
(* Bounds of the model *)

\* Systematic lines are built from at most MaxPieces pieces.
MaxPieces == 6

\* Commands of the test registries need at most MaxMinArgs arguments.
MaxMinArgs == 2

\* cancelCalls stops counting here.
MaxCancelCalls == 2

\* Calls of Connect counted in connects.
MaxConnects == 2

\* Events that enter inbox in one behaviour.
MaxArrivals == 2

-----------------------------------------------------------------------------
(* Text *)

WhiteSpace == {" ", "\t"}

\* strings.HasPrefix(s, p)
HasPrefix(s, p) ==
    /\ Len(p) <= Len(s)
    /\ SubSeq(s, 1, Len(p)) = p

\* strings.CutPrefix(s, p), first result
CutPrefix(s, p) ==
    IF HasPrefix(s, p) THEN SubSeq(s, Len(p) + 1, Len(s)) ELSE s

RECURSIVE TrimLeft(_)
TrimLeft(s) ==
    IF s # <<>> /\ Head(s) \in WhiteSpace THEN TrimLeft(Tail(s)) ELSE s

RECURSIVE TrimRight(_)
TrimRight(s) ==
    IF s # <<>> /\ s[Len(s)] \in WhiteSpace
    THEN TrimRight(SubSeq(s, 1, Len(s) - 1))
    ELSE s

\* strings.TrimSpace(s)
TrimSpace(s) == TrimRight(TrimLeft(s))

\* strings.Fields(s): the maximal runs of non-space characters, in order.
\* FieldsFrom scans s with the token being collected in cur.
RECURSIVE FieldsFrom(_, _)
FieldsFrom(s, cur) ==
    IF s = <<>>
    THEN IF cur = <<>> THEN <<>> ELSE <<cur>>
    ELSE IF Head(s) \in WhiteSpace
         THEN IF cur = <<>>
              THEN FieldsFrom(Tail(s), <<>>)
              ELSE <<cur>> \o FieldsFrom(Tail(s), <<>>)
         ELSE FieldsFrom(Tail(s), Append(cur, Head(s)))

RECURSIVE SplitFrom(_, _)
SplitFrom(s, cur) ==
    IF s = <<>> THEN <<cur>>
    ELSE IF Head(s) \in WhiteSpace
         THEN <<cur>> \o SplitFrom(Tail(s), <<>>)
         ELSE SplitFrom(Tail(s), Append(cur, Head(s)))

FieldsSplit(s) == SplitFrom(s, <<>>)

FieldsEmptyName(s) ==
    IF FieldsFrom(s, <<>>) = <<>> THEN <<<<>>>> ELSE FieldsFrom(s, <<>>)

Fields(s) == FieldsFrom(s, <<>>)

\* Literals, spelled out.
Bang      == <<"!">>
Space     == <<" ">>
StrDie    == <<"d", "i", "e">>
StrPing   == <<"p", "i", "n", "g">>
StrHi     == <<"h", "i">>
StrPong   == <<"p", "o", "n", "g", "!">>
StrUsage  == <<"U", "s", "a", "g", "e", ":", " ">>
StrTagIRC == <<"[", "I", "R", "C", "]", " ">>
StrTagDiscord == <<"[", "D", "I", "S", "C", "O", "R", "D", "]", " ">>
StrColon  == <<":", " ">>
StrArg1   == <<"<", "a", "r", "g", "1", ">">>
StrAuth   == <<"A", "U", "T", "H", " ">>
StrModeX  == <<"+", "x">>
StrSecond == <<"1", "s">>

\* The lines the model feeds to the handlers: every concatenation of at most
\* n of these pieces.
Pieces == {Bang, Space, StrDie, StrPing}

RECURSIVE LinesOf(_)
LinesOf(n) ==
    IF n = 0 THEN {<<>>}
    ELSE LET shorter == LinesOf(n - 1)
         IN  shorter \cup {l \o p : l \in shorter, p \in Pieces}

Lines == LinesOf(MaxPieces)

\* The lines of the chat in the model of the whole process.
ChatLines ==
    { Bang \o StrDie,                      \* !die
      Bang \o StrPing,                     \* !ping
      Bang \o StrHi,                       \* !hi   (no such command)
      Space \o Bang \o StrDie,             \* leading blank, then !die
      Bang \o StrDie \o Space \o StrHi,    \* !die hi
      StrDie,                              \* die
      StrHi }                              \* hi

-----------------------------------------------------------------------------
(* Configuration *)

NickBot == <<"S", "p", "a", "w", "n", "B", "o", "t">>
NickBob == <<"b", "o", "b">>
NameCarol == <<"c", "a", "r", "o", "l">>
QAuthPass == <<"p", "w">>
QService == "q@CServe.quakenet.org"

BridgeChan == <<"#", "s", "p">>
OtherChan  == <<"#", "o", "t">>

Digits == {"0", "1", "2", "3", "4", "5", "6", "7", "8", "9"}

DigitVal(c) ==
    CASE c = "0" -> 0 [] c = "1" -> 1 [] c = "2" -> 2 [] c = "3" -> 3
      [] c = "4" -> 4 [] c = "5" -> 5 [] c = "6" -> 6 [] c = "7" -> 7
      [] c = "8" -> 8 [] c = "9" -> 9

RECURSIVE ParseUint(_)
ParseUint(s) ==
    IF s = <<>> THEN 0
    ELSE 10 * ParseUint(SubSeq(s, 1, Len(s) - 1)) + DigitVal(s[Len(s)])

\* snowflake.Parse(str): the ID, or an error for anything but a decimal number.
SnowflakeParse(s) ==
    IF s # <<>> /\ \A i \in 1..Len(s) : s[i] \in Digits
    THEN [err |-> FALSE, id |-> ParseUint(s)]
    ELSE [err |-> TRUE, id |-> 0]

\* Channel IDs as they stand in SPAWNBOT_DISCORD_CHANNEL_ID.
IDBridge    == <<"4", "2">>
IDMalformed == <<"4", "x">>

\* Channel IDs of inbound Discord messages.
DiscordChannelIDs == {42, 7}

\* Values of the environment variables. The empty string is what os.Getenv
\* returns for a variable that is unset.
Unset == <<>>
ValServer   == <<"i", "r", "c">>
ValNick     == <<"b", "o", "t">>
ValUser     == <<"u">>
ValName     == <<"n">>
ValAuthOld  == <<"o", "l", "d">>
ValTokenNew == <<"t", "k">>
ValTokenOld == <<"t", "0">>
PortSet       == <<"7", "0", "0", "0">>
PortNegative  == <<"-", "1">>
PortMalformed == <<"7", "x">>

\* The defaults of LoadConfig.
DefaultPort == 6667
DefaultUser == <<"s", "p", "a", "w", "n", "b", "o", "t">>
DefaultName == <<"S", "p", "a", "w", "n", "B", "o", "t", " ", "G", "o", " ",
                 "I", "R", "C", " ", "B", "o", "t">>

\* strconv.Atoi: an optional sign, then one decimal digit or more.
Atoi(s) ==
    LET signed == s # <<>> /\ s[1] \in {"+", "-"}
        d == IF signed THEN Tail(s) ELSE s
    IN  IF d # <<>> /\ \A i \in 1..Len(d) : d[i] \in Digits
        THEN [err |-> FALSE,
              n |-> IF s[1] = "-" THEN 0 - ParseUint(d) ELSE ParseUint(d)]
        ELSE [err |-> TRUE, n |-> 0]

\* The nil *AppConfig.
NilConfig == [nil |-> TRUE]

OrElseLegacyFirst(new, legacy) == IF legacy # Unset THEN legacy ELSE new

\* A value read from its variable, or else from the legacy variable.
OrElse(new, legacy) == IF new # Unset THEN new ELSE legacy

\* A value read from its variable, or else the default.
OrDefault(v, default) == IF v # Unset THEN v ELSE default

\* LoadConfig: the configuration read from the environment e, or an error.
\* The checks come in the order of the code; the first that fails returns.
LoadConfig(e) ==
    LET port == Atoi(e.SPAWNBOT_IRC_PORT)
        auth == OrElse(e.SPAWNBOT_QNET_AUTH, e.QNET_AUTH)
        token == OrElse(e.SPAWNBOT_DISCORD_TOKEN, e.SPAWNBOT_TOKEN)
    IN  IF \/ e.SPAWNBOT_IRC_SERVER = Unset
           \/ e.SPAWNBOT_IRC_PORT # Unset /\ port.err
           \/ auth = Unset
           \/ token = Unset
           \/ e.SPAWNBOT_DISCORD_CHANNEL_ID = Unset
           \/ e.SPAWNBOT_IRC_CHANNEL = Unset
        THEN [err |-> TRUE, cfg |-> NilConfig]
        ELSE [err |-> FALSE,
              cfg |-> [ IRCServer |-> e.SPAWNBOT_IRC_SERVER,
                        IRCPort |-> IF e.SPAWNBOT_IRC_PORT = Unset
                                    THEN DefaultPort ELSE port.n,
                        IRCNick |-> OrDefault(e.SPAWNBOT_IRC_NICK, NickBot),
                        IRCUser |-> OrDefault(e.SPAWNBOT_IRC_USER, DefaultUser),
                        IRCName |-> OrDefault(e.SPAWNBOT_IRC_NAME, DefaultName),
                        QNetAuthPass |-> auth,
                        DiscordToken |-> token,
                        BridgeDiscordChannelID |-> e.SPAWNBOT_DISCORD_CHANNEL_ID,
                        BridgeIRCChannel |-> e.SPAWNBOT_IRC_CHANNEL ] ]

\* Every environment over the values above: each variable unset or set, the
\* port also malformed or negative, the channel ID also malformed.
Envs ==
    [ SPAWNBOT_IRC_SERVER : {Unset, ValServer},
      SPAWNBOT_IRC_PORT : {Unset, PortSet, PortNegative, PortMalformed},
      SPAWNBOT_IRC_NICK : {Unset, ValNick},
      SPAWNBOT_IRC_USER : {Unset, ValUser},
      SPAWNBOT_IRC_NAME : {Unset, ValName},
      SPAWNBOT_QNET_AUTH : {Unset, QAuthPass},
      QNET_AUTH : {Unset, ValAuthOld},
      SPAWNBOT_DISCORD_TOKEN : {Unset, ValTokenNew},
      SPAWNBOT_TOKEN : {Unset, ValTokenOld},
      SPAWNBOT_DISCORD_CHANNEL_ID : {Unset, IDBridge, IDMalformed},
      SPAWNBOT_IRC_CHANNEL : {Unset, BridgeChan} ]

\* An environment with every required variable set and the rest left to
\* their defaults.
EnvGood ==
    [ SPAWNBOT_IRC_SERVER |-> ValServer,
      SPAWNBOT_IRC_PORT |-> Unset,
      SPAWNBOT_IRC_NICK |-> Unset,
      SPAWNBOT_IRC_USER |-> Unset,
      SPAWNBOT_IRC_NAME |-> Unset,
      SPAWNBOT_QNET_AUTH |-> QAuthPass,
      QNET_AUTH |-> Unset,
      SPAWNBOT_DISCORD_TOKEN |-> ValTokenNew,
      SPAWNBOT_TOKEN |-> Unset,
      SPAWNBOT_DISCORD_CHANNEL_ID |-> IDBridge,
      SPAWNBOT_IRC_CHANNEL |-> BridgeChan ]

\* The environments the process is started in: the good one, one with a
\* channel ID that is no number, and one for each way LoadConfig can fail
\* on a single variable.
MainEnvs ==
    { EnvGood,
      [EnvGood EXCEPT !.SPAWNBOT_DISCORD_CHANNEL_ID = IDMalformed],
      [EnvGood EXCEPT !.SPAWNBOT_DISCORD_CHANNEL_ID = Unset],
      [EnvGood EXCEPT !.SPAWNBOT_IRC_SERVER = Unset],
      [EnvGood EXCEPT !.SPAWNBOT_IRC_PORT = PortMalformed],
      [EnvGood EXCEPT !.SPAWNBOT_QNET_AUTH = Unset],
      [EnvGood EXCEPT !.SPAWNBOT_DISCORD_TOKEN = Unset],
      [EnvGood EXCEPT !.SPAWNBOT_IRC_CHANNEL = Unset] }

\* The environments LoadConfig accepts, among those the process starts in.
GoodEnvs == {e \in MainEnvs : ~LoadConfig(e).err}

\* The configurations LoadConfig returns without error: every required value
\* is non-empty, and nothing else is asked of the channel ID.
Configs == {LoadConfig(e).cfg : e \in GoodEnvs}

-----------------------------------------------------------------------------
(* Events and what a handler does with one *)

NoEvent == [net |-> "none"]

\* girc.Event of CONNECTED
ConnectedEvent == [net |-> "irc", Command |-> "CONNECTED"]

\* girc.Event of a PRIVMSG: Params is <<target, text>>, or empty.
IRCEvents(lines) ==
    [ net : {"irc"}, Command : {"PRIVMSG"}, Source : {NickBot, NickBob},
      Params : {<<>>} \cup
               {<<t, l>> : t \in {BridgeChan, OtherChan, NickBot}, l \in lines} ]

\* events.MessageCreate
DiscordEvents(lines) ==
    [ net : {"discord"}, Bot : BOOLEAN, Username : {NameCarol},
      ChannelID : DiscordChannelIDs, Content : lines ]

\* girc.Event.Last(): the last parameter, or the empty string.
Last(e) == IF Len(e.Params) = 0 THEN <<>> ELSE e.Params[Len(e.Params)]

\* Nothing done.
NoOut ==
    [ fnCalls |-> <<>>,     \* handlers (Command.Fn) run: <<[cmd, args]>>
      replies |-> <<>>,     \* c.Cmd.Reply calls: <<[origin, text]>>
      discord |-> <<>>,     \* CreateMessage calls: <<[channel, content, ok]>>
      irc     |-> <<>>,     \* commands sent to IRC: <<[cmd, target, text]>>
      cancels |-> 0 ]       \* calls of cancel()

-----------------------------------------------------------------------------
(* Package cmdhandler: registry and dispatcher *)

Prefix == Bang

\* Command: Fn names the body of the handler function.
\*   "pong"   replies "pong!" to the origin      (ping, as main registers it)
\*   "cancel" fires the Shutdown Signal          (die, as main registers it)
\*   "flag"   records that it ran, nothing else  (the commands of the tests)
Command(name, helpArgs, minArgs, fn) ==
    [Name |-> name, HelpArgs |-> helpArgs, MinArgs |-> minArgs, Fn |-> fn]

\* The registry setupCommandHandlers builds.
MainCmds ==
    { Command(StrPing, <<>>, 0, "pong"),
      Command(StrDie, <<>>, 0, "cancel") }

\* Registries as the tests build them: each name absent, or registered once.
TestCmds ==
    { ps \cup ds :
        ps \in {{}} \cup {{Command(StrPing, <<>>, m, "flag")} : m \in 0..MaxMinArgs},
        ds \in {{}} \cup {{Command(StrDie, StrArg1, m, "flag")} : m \in 0..MaxMinArgs} }

\* Registries that hold a command registered under the empty name.
EdgeCmds ==
    { {Command(<<>>, <<>>, 0, "flag")},
      {Command(<<>>, <<>>, 0, "flag"), Command(StrPing, <<>>, 0, "flag")} }

LookupByPrefix(reg, name) == {c \in reg : HasPrefix(name, c.Name)}

\* Lookup(name): the commands registered under name (none, or one).
Lookup(reg, name) == {c \in reg : c.Name = name}

UsageTextNoPrefix(cmd) == StrUsage \o cmd.Name \o Space \o cmd.HelpArgs

\* "Usage: {prefix}{name} {help_args}"
UsageText(cmd) == StrUsage \o Prefix \o cmd.Name \o Space \o cmd.HelpArgs

\* What the handler function of cmd does, called with input in.
RunFn(cmd, in) ==
    [ NoOut EXCEPT
        !.fnCalls = <<[cmd |-> cmd.Name, args |-> in.Args]>>,
        !.replies = IF cmd.Fn = "pong"
                    THEN <<[origin |-> in.Origin, text |-> StrPong]>>
                    ELSE <<>>,
        !.cancels = IF cmd.Fn = "cancel" THEN 1 ELSE 0 ]

\* The minimum-argument check: args are enough for cmd.
EnoughStrict(args, cmd) == Len(args) > cmd.MinArgs

Enough(args, cmd) == Len(args) >= cmd.MinArgs

\* CmdHandler.Execute(client, event)
Execute(reg, e) ==
    LET line == TrimSpace(Last(e))
        toks == Fields(CutPrefix(line, Prefix))
    IN  IF ~HasPrefix(line, Prefix) THEN NoOut
        ELSE IF toks = <<>> THEN NoOut
        ELSE IF Lookup(reg, Head(toks)) = {} THEN NoOut
        ELSE LET cmd  == CHOOSE c \in Lookup(reg, Head(toks)) : TRUE
                 args == Tail(toks)
             IN  IF ~Enough(args, cmd)
                 THEN [NoOut EXCEPT
                         !.replies = <<[origin |-> e, text |-> UsageText(cmd)]>>]
                 ELSE RunFn(cmd, [Source |-> e.Source, Args |-> args, Origin |-> e])

-----------------------------------------------------------------------------
(* The relay handlers of registerIRCHandlers and registerDiscordHandlers *)

EnvelopeIRCNumbered(username, content) ==
    StrTagIRC \o username \o StrColon \o content
        \o (IF orderLog = <<>> THEN <<>> ELSE <<"'">>)

\* fmt.Sprintf("[IRC] %s: %s", username, content)
EnvelopeIRC(username, content) == StrTagIRC \o username \o StrColon \o content

\* fmt.Sprintf("[DISCORD] %s: %s", author, content)
EnvelopeDiscord(author, content) == StrTagDiscord \o author \o StrColon \o content

IRCRelayableAnyTarget(c, e) ==
    /\ Len(e.Params) > 0
    /\ e.Source # c.IRCNick
    /\ ~HasPrefix(Last(e), Prefix)

IRCRelayableCommands(c, e) ==
    /\ Len(e.Params) > 0
    /\ e.Params[1] = c.BridgeIRCChannel
    /\ e.Source # c.IRCNick

IRCRelayableOwn(c, e) ==
    /\ Len(e.Params) > 0
    /\ e.Params[1] = c.BridgeIRCChannel
    /\ ~HasPrefix(Last(e), Prefix)

\* The condition under which the PRIVMSG handler relays e.
IRCRelayable(c, e) ==
    /\ Len(e.Params) > 0
    /\ e.Params[1] = c.BridgeIRCChannel
    /\ e.Source # c.IRCNick
    /\ ~HasPrefix(Last(e), Prefix)

IRCPrivmsgOutFatal(c, reg, e, sendOk) ==
    LET x == Execute(reg, e)
        p == SnowflakeParse(c.BridgeDiscordChannelID)
    IN  IF IRCRelayable(c, e) /\ ~p.err
        THEN [x EXCEPT !.discord =
                 <<[ channel |-> p.id,
                     content |-> EnvelopeIRC(e.Source, Last(e)),
                     ok      |-> sendOk ]>>,
                       !.cancels = IF sendOk THEN @ ELSE @ + 1]
        ELSE x

\* The PRIVMSG handler on event e; sendOk: CreateMessage returns no error.
IRCPrivmsgOut(c, reg, e, sendOk) ==
    LET x == Execute(reg, e)
        p == SnowflakeParse(c.BridgeDiscordChannelID)
    IN  IF IRCRelayable(c, e) /\ ~p.err
        THEN [x EXCEPT !.discord =
                 <<[ channel |-> p.id,
                     content |-> EnvelopeIRC(e.Source, Last(e)),
                     ok      |-> sendOk ]>>]
        ELSE x

DiscordIsDieUnprefixed(e) == CutPrefix(e.Content, Bang) = StrDie

DiscordIsDieWithArgs(e) == HasPrefix(e.Content, Bang \o StrDie)

\* The Discord message is the die command.
DiscordIsDie(e) ==
    /\ HasPrefix(e.Content, Bang)
    /\ CutPrefix(e.Content, Bang) = StrDie

DiscordMessageOutAnyChannel(c, e) ==
    IF e.Bot THEN NoOut
    ELSE IF HasPrefix(e.Content, Bang) /\ CutPrefix(e.Content, Bang) = StrDie
    THEN [NoOut EXCEPT !.cancels = 1]
    ELSE NoOut

DiscordMessageOutRelaysBots(c, e) ==
    LET p == SnowflakeParse(c.BridgeDiscordChannelID)
    IN  IF p.err THEN NoOut
        ELSE IF e.ChannelID # p.id THEN NoOut
        ELSE IF HasPrefix(e.Content, Bang) /\ CutPrefix(e.Content, Bang) = StrDie
             THEN [NoOut EXCEPT !.cancels = 1]
        ELSE IF ~HasPrefix(e.Content, Bang)
             THEN [NoOut EXCEPT !.irc =
                      <<[ cmd    |-> "PRIVMSG",
                          target |-> c.BridgeIRCChannel,
                          text   |-> EnvelopeDiscord(e.Username, e.Content) ]>>]
             ELSE NoOut

\* The MessageCreate listener on event e.
DiscordMessageOut(c, e) ==
    LET p == SnowflakeParse(c.BridgeDiscordChannelID)
    IN  IF e.Bot THEN NoOut
        ELSE IF p.err THEN NoOut
        ELSE IF e.ChannelID # p.id THEN NoOut
        ELSE IF DiscordIsDie(e) THEN [NoOut EXCEPT !.cancels = 1]
        ELSE IF ~HasPrefix(e.Content, Bang)
             THEN [NoOut EXCEPT !.irc =
                      <<[ cmd    |-> "PRIVMSG",
                          target |-> c.BridgeIRCChannel,
                          text   |-> EnvelopeDiscord(e.Username, e.Content) ]>>]
             ELSE NoOut

IRCConnectedOutJoinFirst(c) ==
    [NoOut EXCEPT !.irc =
        << [cmd |-> "JOIN", target |-> c.BridgeIRCChannel, text |-> <<>>],
           [cmd |-> "PRIVMSG", target |-> QService,
            text |-> StrAuth \o c.IRCNick \o Space \o c.QNetAuthPass],
           [cmd |-> "MODE", target |-> c.IRCNick, text |-> StrModeX],
           [cmd |-> "time.Sleep", target |-> <<>>, text |-> StrSecond] >>]

\* The CONNECTED handler: AUTH to Q, MODE +x, a second's sleep, JOIN.
IRCConnectedOut(c) ==
    [NoOut EXCEPT !.irc =
        << [cmd |-> "PRIVMSG", target |-> QService,
            text |-> StrAuth \o c.IRCNick \o Space \o c.QNetAuthPass],
           [cmd |-> "MODE", target |-> c.IRCNick, text |-> StrModeX],
           [cmd |-> "time.Sleep", target |-> <<>>, text |-> StrSecond],
           [cmd |-> "JOIN", target |-> c.BridgeIRCChannel, text |-> <<>>] >>]

-----------------------------------------------------------------------------
(* The Shutdown Signal: ctx, cancel := context.WithCancel(...) *)

CancelToggles(done) == ~done

\* cancel(): the state of ctx.Done() after the call, given the state before.
CancelFunc(done) == TRUE

\* n calls of cancel(), with the bookkeeping of the history variables.
Cancel(n) ==
    /\ ctxDone' = IF n > 0 THEN CancelFunc(ctxDone) ELSE ctxDone
    /\ fired' = IF ~ctxDone /\ ctxDone' /\ fired < 2 THEN fired + 1 ELSE fired
    /\ cancelCalls' = IF cancelCalls + n <= MaxCancelCalls
                     THEN cancelCalls + n ELSE MaxCancelCalls

\* A handler has run on e and done out.
Handled(e, out) ==
    /\ lastEvent' = e
    /\ lastOut' = out
    /\ Cancel(out.cancels)

-----------------------------------------------------------------------------
(* The process: main, the signal goroutine, runIRCClient, the two clients *)

\* The process has not exited.
Running ==
    mainPc \in {"loadConfig", "setup", "openGateway", "startIRC", "waitCtx",
                "closeDiscord", "quitIRC"}

\* The signal goroutine is running: from setupSignalHandling on.
SignalsHandled == Running /\ mainPc # "loadConfig"

ExitStatusAlwaysZero(pc) == 0

\* The exit status of the process at position pc of main: 1 where main has
\* called os.Exit(1), 0 where it has returned.
ExitStatus(pc) ==
    IF pc \in {"exitConfig", "exitSetup", "exitGateway"} THEN 1 ELSE 0

\* The Discord gateway is open: between OpenGateway and the return of Close.
GatewayOpen == mainPc \in {"startIRC", "waitCtx", "closeDiscord"}

\* The IRC client is inside Connect with the connection established.
IRCUp == ircPc = "inConnect" /\ ircConn = "up"

\* The two pauses of runIRCClient, in seconds.
BackoffSeconds == 30
PauseSeconds == 5

\* No Connect has returned since the last one began (or none ever began).
NoGap == [ret |-> "none", pause |-> 0]

\* No event is waiting for its handler.
NoInbox == [irc |-> <<>>, discord |-> <<>>]

Init ==
    /\ env \in MainEnvs
    /\ cfg = NilConfig
    /\ cmds = {}
    /\ ctxDone = FALSE
    /\ fired = 0
    /\ cancelCalls = 0
    /\ sigSeen = FALSE
    /\ mainPc = "loadConfig"
    /\ ircPc = "notStarted"
    /\ ircConn = "down"
    /\ lateConnects = 0
    /\ connects = 0
    /\ mainLog = <<>>
    /\ gap = NoGap
    /\ inbox = NoInbox
    /\ arrived = 0
    /\ orderLog = <<>>
    /\ lastEvent = NoEvent
    /\ lastOut = NoOut

\* main: LoadConfig() returns an error, os.Exit(1)
LoadConfigFail ==
    /\ mainPc = "loadConfig"
    /\ LoadConfig(env).err
    /\ mainPc' = "exitConfig"
    /\ UNCHANGED <<env, cfg, cmds, ctxDone, fired, cancelCalls, sigSeen, ircPc,
                   ircConn, lateConnects, connects, mainLog, lastEvent, lastOut, gap, orderVars>>

\* main: LoadConfig() returns the configuration; setupSignalHandling(cancel)
LoadConfigOk ==
    /\ mainPc = "loadConfig"
    /\ ~LoadConfig(env).err
    /\ cfg' = LoadConfig(env).cfg
    /\ mainPc' = "setup"
    /\ UNCHANGED <<env, cmds, ctxDone, fired, cancelCalls, sigSeen, ircPc,
                   ircConn, lateConnects, connects, mainLog, lastEvent, lastOut, gap, orderVars>>

\* main: setupCommandHandlers, girc.New or disgo.New returns an error,
\* os.Exit(1)
SetupFail ==
    /\ mainPc = "setup"
    /\ mainPc' = "exitSetup"
    /\ UNCHANGED <<env, cfg, cmds, ctxDone, fired, cancelCalls, sigSeen, ircPc,
                   ircConn, lateConnects, connects, mainLog, lastEvent, lastOut, gap, orderVars>>

\* main: the commands are registered, the two clients are made and the
\* handlers are registered on them
SetupOk ==
    /\ mainPc = "setup"
    /\ cmds' = MainCmds
    /\ mainPc' = "openGateway"
    /\ UNCHANGED <<env, cfg, ctxDone, fired, cancelCalls, sigSeen, ircPc,
                   ircConn, lateConnects, connects, mainLog, lastEvent, lastOut, gap, orderVars>>

OpenGatewayFailAfterStart ==
    /\ mainPc = "openGateway"
    /\ mainPc' = "exitGateway"
    /\ ircPc' = "loopTop"
    /\ UNCHANGED <<env, cfg, cmds, ctxDone, fired, cancelCalls, sigSeen,
                   ircConn, lateConnects, connects, mainLog, lastEvent, lastOut, gap, orderVars>>

\* main: discordClient.OpenGateway(ctx) fails, os.Exit(1)
OpenGatewayFail ==
    /\ mainPc = "openGateway"
    /\ mainPc' = "exitGateway"
    /\ UNCHANGED <<env, cfg, cmds, ctxDone, fired, cancelCalls, sigSeen, ircPc,
                   ircConn, lateConnects, connects, mainLog, lastEvent, lastOut, gap, orderVars>>

\* main: discordClient.OpenGateway(ctx) succeeds
OpenGatewayOk ==
    /\ mainPc = "openGateway"
    /\ mainPc' = "startIRC"
    /\ UNCHANGED <<env, cfg, cmds, ctxDone, fired, cancelCalls, sigSeen, ircPc,
                   ircConn, lateConnects, connects, mainLog, lastEvent, lastOut, gap, orderVars>>

\* main: go runIRCClient(ctx, ircClient)
StartIRC ==
    /\ mainPc = "startIRC"
    /\ mainPc' = "waitCtx"
    /\ ircPc' = "loopTop"
    /\ UNCHANGED <<env, cfg, cmds, ctxDone, fired, cancelCalls, sigSeen,
                   ircConn, lateConnects, connects, mainLog, lastEvent, lastOut, gap, orderVars>>

MainWakeAfterLoop ==
    /\ mainPc = "waitCtx"
    /\ ctxDone
    /\ ircPc = "stopped"
    /\ mainPc' = "closeDiscord"
    /\ UNCHANGED <<env, cfg, cmds, ctxDone, fired, cancelCalls, sigSeen, ircPc,
                   ircConn, lateConnects, connects, mainLog, lastEvent, lastOut, gap, orderVars>>

\* main: <-ctx.Done() returns
MainWake ==
    /\ mainPc = "waitCtx"
    /\ ctxDone
    /\ mainPc' = "closeDiscord"
    /\ UNCHANGED <<env, cfg, cmds, ctxDone, fired, cancelCalls, sigSeen, ircPc,
                   ircConn, lateConnects, connects, mainLog, lastEvent, lastOut, gap, orderVars>>

\* What discordClient.Close returns: nil, or an error, which is logged.
DiscordCloseOutcomes == {"discord.Close", "discord.Close: error"}

\* main: discordClient.Close(...) returns, with or without an error
CloseDiscord ==
    /\ mainPc = "closeDiscord"
    /\ mainPc' = "quitIRC"
    /\ \E outcome \in DiscordCloseOutcomes : mainLog' = Append(mainLog, outcome)
    /\ UNCHANGED <<env, cfg, cmds, ctxDone, fired, cancelCalls, sigSeen, ircPc,
                   ircConn, lateConnects, connects, lastEvent, lastOut, gap, orderVars>>

\* main: ircClient.Quit("Shutting down..."), then main returns, which runs
\* the deferred cancel(), and the process, with all its goroutines, ends
QuitIRC ==
    /\ mainPc = "quitIRC"
    /\ mainPc' = "done"
    /\ mainLog' = Append(mainLog, "irc.Quit")
    /\ Cancel(1)
    /\ UNCHANGED <<env, cfg, cmds, sigSeen, ircPc, ircConn, lateConnects, connects,
                   lastEvent, lastOut, gap, orderVars>>

OSSignalExits ==
    /\ SignalsHandled
    /\ ~sigSeen
    /\ sigSeen' = TRUE
    /\ mainPc' = "exitSetup"
    /\ UNCHANGED <<env, cfg, cmds, ctxDone, fired, cancelCalls, ircPc, ircConn,
                   lateConnects, connects, mainLog, lastEvent, lastOut, gap,
                   orderVars>>

\* The goroutine of setupSignalHandling: sig := <-sigCh; cancel()
OSSignal ==
    /\ SignalsHandled
    /\ ~sigSeen
    /\ sigSeen' = TRUE
    /\ Cancel(1)
    /\ UNCHANGED <<env, cfg, cmds, mainPc, ircPc, ircConn, lateConnects, connects, mainLog,
                   lastEvent, lastOut, gap, orderVars>>

LoopTopNextBlind(done) == "callConnect"

\* Where the select at the top of the loop goes: ctx.Done() if it is ready,
\* the default case otherwise.
LoopTopNext(done) == IF done THEN "stopped" ELSE "callConnect"

\* runIRCClient: the select at the top of the loop
LoopSelect ==
    /\ Running
    /\ ircPc = "loopTop"
    /\ ircPc' = LoopTopNext(ctxDone)
    /\ UNCHANGED <<env, cfg, cmds, ctxDone, fired, cancelCalls, sigSeen, mainPc,
                   ircConn, lateConnects, connects, mainLog, lastEvent, lastOut, gap, orderVars>>

\* runIRCClient: the call of ircClient.Connect() begins
ConnectBegin ==
    /\ Running
    /\ ircPc = "callConnect"
    /\ ircPc' = "inConnect"
    /\ ircConn' = "down"
    /\ lateConnects' = IF ctxDone /\ lateConnects < 2
                      THEN lateConnects + 1 ELSE lateConnects
    /\ gap' = NoGap
    /\ connects' = IF connects < MaxConnects THEN connects + 1 ELSE connects
    /\ UNCHANGED <<env, cfg, cmds, ctxDone, fired, cancelCalls, sigSeen, mainPc,
                   lastEvent, lastOut, mainLog, orderVars>>

\* The connection is established and the CONNECTED handler runs.
IRCConnected ==
    /\ Running
    /\ ircPc = "inConnect"
    /\ ircConn = "down"
    /\ ircConn' = "up"
    /\ Handled(ConnectedEvent, IRCConnectedOut(cfg))
    /\ UNCHANGED <<env, cfg, cmds, sigSeen, mainPc, ircPc, lateConnects, connects, mainLog, gap, orderVars>>

\* runIRCClient: Connect returns an error
ConnectReturnErr ==
    /\ Running
    /\ ircPc = "inConnect"
    /\ ircPc' = "afterErr"
    /\ ircConn' = "down"
    /\ gap' = [ret |-> "err", pause |-> 0]
    /\ UNCHANGED <<env, cfg, cmds, ctxDone, fired, cancelCalls, sigSeen, mainPc,
                   lateConnects, connects, mainLog, lastEvent, lastOut, orderVars>>

\* runIRCClient: Connect returns nil
ConnectReturnNil ==
    /\ Running
    /\ ircPc = "inConnect"
    /\ ircPc' = "afterOk"
    /\ ircConn' = "down"
    /\ gap' = [ret |-> "nil", pause |-> 0]
    /\ UNCHANGED <<env, cfg, cmds, ctxDone, fired, cancelCalls, sigSeen, mainPc,
                   lateConnects, connects, mainLog, lastEvent, lastOut, orderVars>>

CheckAfterErrGivesUp ==
    /\ Running
    /\ ircPc = "afterErr"
    /\ ircPc' = "stopped"
    /\ UNCHANGED <<env, cfg, cmds, ctxDone, fired, cancelCalls, sigSeen, mainPc,
                   ircConn, lateConnects, connects, mainLog, lastEvent, lastOut, gap, orderVars>>

\* runIRCClient: if ctx.Err() != nil after a failed Connect
CheckAfterErr ==
    /\ Running
    /\ ircPc = "afterErr"
    /\ ircPc' = IF ctxDone THEN "stopped" ELSE "wait30"
    /\ UNCHANGED <<env, cfg, cmds, ctxDone, fired, cancelCalls, sigSeen, mainPc,
                   ircConn, lateConnects, connects, mainLog, lastEvent, lastOut, gap, orderVars>>

CheckAfterOkNoPause ==
    /\ Running
    /\ ircPc = "afterOk"
    /\ ircPc' = "loopTop"
    /\ UNCHANGED <<env, cfg, cmds, ctxDone, fired, cancelCalls, sigSeen, mainPc,
                   ircConn, lateConnects, connects, mainLog, lastEvent, lastOut,
                   gap, orderVars>>

WaitTimerToConnect ==
    /\ Running
    /\ ircPc \in {"wait30", "wait5"}
    /\ ircPc' = "callConnect"
    /\ gap' = [gap EXCEPT !.pause = IF ircPc = "wait30" THEN BackoffSeconds
                                  ELSE PauseSeconds]
    /\ UNCHANGED <<env, cfg, cmds, ctxDone, fired, cancelCalls, sigSeen, mainPc,
                   ircConn, lateConnects, connects, mainLog, lastEvent, lastOut,
                   orderVars>>

\* runIRCClient: if ctx.Err() != nil after Connect returned nil; the branch
\* that sees the context cancelled only logs, and the loop goes round.
CheckAfterOk ==
    /\ Running
    /\ ircPc = "afterOk"
    /\ ircPc' = IF ctxDone THEN "loopTop" ELSE "wait5"
    /\ UNCHANGED <<env, cfg, cmds, ctxDone, fired, cancelCalls, sigSeen, mainPc,
                   ircConn, lateConnects, connects, mainLog, lastEvent, lastOut, gap, orderVars>>

\* runIRCClient: time.After fires in one of the two waits
WaitTimer ==
    /\ Running
    /\ ircPc \in {"wait30", "wait5"}
    /\ ircPc' = "loopTop"
    /\ gap' = [gap EXCEPT !.pause = IF ircPc = "wait30" THEN BackoffSeconds
                                  ELSE PauseSeconds]
    /\ UNCHANGED <<env, cfg, cmds, ctxDone, fired, cancelCalls, sigSeen, mainPc,
                   ircConn, lateConnects, connects, mainLog, lastEvent, lastOut, orderVars>>

\* runIRCClient: ctx.Done() is taken in one of the two waits
WaitCancelled ==
    /\ Running
    /\ ircPc \in {"wait30", "wait5"}
    /\ ctxDone
    /\ ircPc' = "stopped"
    /\ UNCHANGED <<env, cfg, cmds, ctxDone, fired, cancelCalls, sigSeen, mainPc,
                   ircConn, lateConnects, connects, mainLog, lastEvent, lastOut, gap, orderVars>>

\* A PRIVMSG arrives on the IRC connection and its handler runs.
IRCPrivmsg ==
    /\ Running
    /\ IRCUp
    /\ \E e \in IRCEvents(ChatLines), sendOk \in BOOLEAN :
          Handled(e, IRCPrivmsgOut(cfg, cmds, e, sendOk))
    /\ UNCHANGED <<env, cfg, cmds, sigSeen, mainPc, ircPc, ircConn, lateConnects, connects, mainLog, gap, orderVars>>

\* A message arrives on the Discord gateway and its listener runs.
DiscordMessage ==
    /\ GatewayOpen
    /\ \E e \in DiscordEvents(ChatLines) :
          Handled(e, DiscordMessageOut(cfg, e))
    /\ UNCHANGED <<env, cfg, cmds, sigSeen, mainPc, ircPc, ircConn, lateConnects, connects, mainLog, gap, orderVars>>

Next ==
    \/ LoadConfigFail
    \/ LoadConfigOk
    \/ SetupFail
    \/ SetupOk
    \/ OpenGatewayFail
    \/ OpenGatewayOk
    \/ StartIRC
    \/ MainWake
    \/ CloseDiscord
    \/ QuitIRC
    \/ OSSignal
    \/ LoopSelect
    \/ ConnectBegin
    \/ IRCConnected
    \/ ConnectReturnErr
    \/ ConnectReturnNil
    \/ CheckAfterErr
    \/ CheckAfterOk
    \/ WaitTimer
    \/ WaitCancelled
    \/ IRCPrivmsg
    \/ DiscordMessage

Spec == Init /\ [][Next]_vars

\* The steps runIRCClient takes by itself: the goroutine is scheduled while
\* it can run, and a timer of time.After fires. Nothing is asked of Connect,
\* which returns when the network makes it, nor of main or of the messages.
LoopFairness ==
    /\ WF_vars(LoopSelect)
    /\ WF_vars(ConnectBegin)
    /\ WF_vars(CheckAfterErr)
    /\ WF_vars(CheckAfterOk)
    /\ WF_vars(WaitTimer)

SpecFair == Spec /\ LoopFairness

\* The steps main takes by itself: its goroutine is scheduled, and each call
\* it makes (LoadConfig, the setup, OpenGateway, Close, Quit) returns.
MainFairness ==
    /\ WF_vars(LoadConfigFail \/ LoadConfigOk)
    /\ WF_vars(SetupFail \/ SetupOk)
    /\ WF_vars(OpenGatewayFail \/ OpenGatewayOk)
    /\ WF_vars(StartIRC)
    /\ WF_vars(MainWake)
    /\ WF_vars(CloseDiscord)
    /\ WF_vars(QuitIRC)

SpecShutdown == Spec /\ MainFairness

-----------------------------------------------------------------------------
(* The relay handlers on every line: one message per behaviour, arriving   *)
(* while the bridge is up on both sides. InitRelay is the state of Spec    *)
(* right after the first IRC connection has been established.              *)

InitRelay ==
    /\ env \in GoodEnvs
    /\ cfg = LoadConfig(env).cfg
    /\ cmds = MainCmds
    /\ ctxDone = FALSE
    /\ fired = 0
    /\ cancelCalls = 0
    /\ sigSeen = FALSE
    /\ mainPc = "waitCtx"
    /\ ircPc = "inConnect"
    /\ ircConn = "up"
    /\ lateConnects = 0
    /\ connects = 1
    /\ mainLog = <<>>
    /\ gap = NoGap
    /\ inbox = NoInbox
    /\ arrived = 0
    /\ orderLog = <<>>
    /\ lastEvent = ConnectedEvent
    /\ lastOut = IRCConnectedOut(cfg)

RelayIRC ==
    /\ lastEvent = ConnectedEvent
    /\ Running
    /\ IRCUp
    /\ \E e \in IRCEvents(Lines), sendOk \in BOOLEAN :
          Handled(e, IRCPrivmsgOut(cfg, cmds, e, sendOk))
    /\ UNCHANGED <<env, cfg, cmds, sigSeen, mainPc, ircPc, ircConn, lateConnects, connects, mainLog, gap, orderVars>>

RelayDiscord ==
    /\ lastEvent = ConnectedEvent
    /\ GatewayOpen
    /\ \E e \in DiscordEvents(Lines) :
          Handled(e, DiscordMessageOut(cfg, e))
    /\ UNCHANGED <<env, cfg, cmds, sigSeen, mainPc, ircPc, ircConn, lateConnects, connects, mainLog, gap, orderVars>>

NextRelay == RelayIRC \/ RelayDiscord

SpecRelay == InitRelay /\ [][NextRelay]_vars

-----------------------------------------------------------------------------
(* The dispatcher alone, as the tests of package cmdhandler drive it: a    *)
(* registry, and one call of Execute on one event.                         *)

InitDispatch ==
    /\ env = EnvGood
    /\ cfg = LoadConfig(env).cfg
    /\ cmds \in TestCmds \cup EdgeCmds \cup {MainCmds}
    /\ ctxDone = FALSE
    /\ fired = 0
    /\ cancelCalls = 0
    /\ sigSeen = FALSE
    /\ mainPc = "openGateway"
    /\ ircPc = "notStarted"
    /\ ircConn = "down"
    /\ lateConnects = 0
    /\ connects = 0
    /\ mainLog = <<>>
    /\ gap = NoGap
    /\ inbox = NoInbox
    /\ arrived = 0
    /\ orderLog = <<>>
    /\ lastEvent = NoEvent
    /\ lastOut = NoOut

DispatchLine ==
    /\ lastEvent = NoEvent
    /\ \E e \in IRCEvents(Lines) : Handled(e, Execute(cmds, e))
    /\ UNCHANGED <<env, cfg, cmds, sigSeen, mainPc, ircPc, ircConn, lateConnects, connects, mainLog, gap, orderVars>>

NextDispatch == DispatchLine

SpecDispatch == InitDispatch /\ [][NextDispatch]_vars

-----------------------------------------------------------------------------
(* Claims about the dispatcher, under SpecDispatch *)

\* A PRIVMSG with a text has been handled.
LineHandled ==
    /\ lastEvent.net = "irc"
    /\ lastEvent.Command = "PRIVMSG"
    /\ Len(lastEvent.Params) > 0

\* The tokens that follow the prefix in line.
TokensOf(line) == Fields(CutPrefix(line, Prefix))

\* line starts with the prefix and its first token is the name of c.
Invokes(line, c) ==
    /\ HasPrefix(line, Prefix)
    /\ TokensOf(line) # <<>>
    /\ Head(TokensOf(line)) = c.Name

IsUsage(reply) == HasPrefix(reply.text, StrUsage)

\* C1: when the handled line starts with the prefix, names a registered
\* command c and carries at least c.MinArgs arguments, the one call of
\* Execute has run the handler of c exactly once (and no other handler) and
\* has issued no usage reply.
C1_HandlerOnce ==
    LineHandled =>
        \A c \in cmds :
            ( /\ Invokes(Last(lastEvent), c)
              /\ Len(TokensOf(Last(lastEvent))) - 1 >= c.MinArgs )
            => /\ Len(lastOut.fnCalls) = 1
               /\ lastOut.fnCalls[1].cmd = c.Name
               /\ \A i \in 1..Len(lastOut.replies) : ~IsUsage(lastOut.replies[i])

\* C1 witness: a command that needs two arguments has been called with two.
C1_Witness ==
    /\ LineHandled
    /\ \E c \in cmds :
          /\ c.MinArgs >= 2
          /\ Invokes(Last(lastEvent), c)
          /\ Len(lastOut.fnCalls) = 1
          /\ lastOut.fnCalls[1].cmd = c.Name
          /\ Len(lastOut.fnCalls[1].args) >= c.MinArgs

\* C2: when the handled line names a registered command c with fewer than
\* c.MinArgs arguments, no handler has run and exactly one reply has been
\* issued, to the originating event, with the text
\* "Usage: " + prefix + c.Name + " " + c.HelpArgs.
C2_UsageReply ==
    LineHandled =>
        \A c \in cmds :
            ( /\ Invokes(TrimSpace(Last(lastEvent)), c)
              /\ Len(TokensOf(TrimSpace(Last(lastEvent)))) - 1 < c.MinArgs )
            => /\ lastOut.fnCalls = <<>>
               /\ lastOut.replies =
                     << [ origin |-> lastEvent,
                          text   |-> StrUsage \o Prefix \o c.Name \o Space \o c.HelpArgs ] >>

\* C2 witness: "!die" with die registered as needing an argument, answered
\* by "Usage: !die <arg1>".
C2_Witness ==
    /\ LineHandled
    /\ Last(lastEvent) = Bang \o StrDie
    /\ \E c \in cmds : c.Name = StrDie /\ c.MinArgs = 1
    /\ Len(lastOut.replies) = 1
    /\ lastOut.replies[1].text = StrUsage \o Bang \o StrDie \o Space \o StrArg1
    /\ lastOut.fnCalls = <<>>

\* line is no invocation of a command of reg: it does not start with the
\* prefix, or its first token after the prefix is not a registered name.
NotACommand(reg, line) ==
    \/ ~HasPrefix(line, Prefix)
    \/ TokensOf(line) = <<>>
    \/ \A c \in reg : c.Name # Head(TokensOf(line))

\* C3 as claimed: when the handled line does not start with the prefix, or
\* its first token after the prefix is not the name of a registered command,
\* no handler has run and no reply has been issued.
C3_Original ==
    (LineHandled /\ NotACommand(cmds, Last(lastEvent)))
        => (lastOut.fnCalls = <<>> /\ lastOut.replies = <<>>)

\* C3 amended: when the handled line, with leading and trailing white space
\* removed, does not start with the prefix, or its first token after the
\* prefix is not the name of a registered command, no handler has run and
\* no reply has been issued.
C3_NoSideEffect ==
    (LineHandled /\ NotACommand(cmds, TrimSpace(Last(lastEvent))))
        => (lastOut.fnCalls = <<>> /\ lastOut.replies = <<>>)

\* C3 witness: a prefixed line naming no registered command, while some
\* command is registered, has been handled with no effect.
C3_Witness ==
    /\ LineHandled
    /\ cmds # {}
    /\ HasPrefix(Last(lastEvent), Prefix)
    /\ TokensOf(Last(lastEvent)) # <<>>
    /\ \A c \in cmds : c.Name # Head(TokensOf(Last(lastEvent)))
    /\ lastOut = NoOut

-----------------------------------------------------------------------------
(* Claims about the relay handlers, under SpecRelay *)

\* The handled event is an IRC message to the bridge channel.
OnBridgeIRC ==
    /\ LineHandled
    /\ lastEvent.Params[1] = cfg.BridgeIRCChannel

\* The handled event is a Discord message.
DiscordHandled == lastEvent.net = "discord"

\* The configured Discord channel ID is a number.
ChannelIDWellFormed == ~SnowflakeParse(cfg.BridgeDiscordChannelID).err

\* The handled event is a Discord message on the bridge channel.
OnBridgeDiscord ==
    /\ DiscordHandled
    /\ ChannelIDWellFormed
    /\ lastEvent.ChannelID = SnowflakeParse(cfg.BridgeDiscordChannelID).id

\* C4: a message on the bridge channel whose content starts with the
\* prefix has not been forwarded: an IRC one has caused no Discord send, a
\* Discord one no IRC send, whether or not it names a command.
C4_PrefixedNotRelayed ==
    /\ (OnBridgeIRC /\ HasPrefix(Last(lastEvent), Prefix))
          => lastOut.discord = <<>>
    /\ (OnBridgeDiscord /\ HasPrefix(lastEvent.Content, Prefix))
          => lastOut.irc = <<>>

\* C4 witness: "!ping" from another user on the IRC bridge channel, with a
\* well-formed configuration: answered by the command, and not forwarded.
C4_Witness ==
    /\ OnBridgeIRC
    /\ ChannelIDWellFormed
    /\ lastEvent.Source = NickBob
    /\ Last(lastEvent) = Bang \o StrPing
    /\ Len(lastOut.fnCalls) = 1
    /\ lastOut.discord = <<>>

\* C5: a message authored by the bridge itself has not been relayed: an IRC
\* message whose sender nick is the configured nick has caused no Discord
\* send, a Discord message whose author is a bot no IRC send.
C5_OwnNotRelayed ==
    /\ (LineHandled /\ lastEvent.Source = cfg.IRCNick)
          => lastOut.discord = <<>>
    /\ (DiscordHandled /\ lastEvent.Bot)
          => lastOut.irc = <<>>

\* C5 witness: ordinary chat on the IRC bridge channel under the bridge's
\* own nick, with a well-formed configuration: nothing sent.
C5_Witness ==
    /\ OnBridgeIRC
    /\ ChannelIDWellFormed
    /\ lastEvent.Source = cfg.IRCNick
    /\ Last(lastEvent) = StrDie \o Space \o StrPing
    /\ lastOut = NoOut

\* C6 as claimed: a message authored by the bridge itself has not been
\* dispatched as a command: an IRC message whose sender nick is the
\* configured nick has run no handler and caused no usage reply, and a
\* Discord message of a bot has not fired the Shutdown Signal.
C6_OwnNotDispatched ==
    /\ (LineHandled /\ lastEvent.Source = cfg.IRCNick)
          => /\ lastOut.fnCalls = <<>>
             /\ \A i \in 1..Len(lastOut.replies) : ~IsUsage(lastOut.replies[i])
    /\ (DiscordHandled /\ lastEvent.Bot)
          => lastOut.cancels = 0

\* C7 as claimed: an IRC message on the bridge channel from a sender other
\* than the bridge, with a content that does not start with the prefix, has
\* caused exactly one Discord send, to the configured channel, with the
\* content "[IRC] " + sender + ": " + content.
C7_IRCRelayed ==
    ( /\ OnBridgeIRC
      /\ lastEvent.Source # cfg.IRCNick
      /\ ~HasPrefix(Last(lastEvent), Prefix) )
    => /\ Len(lastOut.discord) = 1
       /\ lastOut.discord[1].channel = SnowflakeParse(cfg.BridgeDiscordChannelID).id
       /\ lastOut.discord[1].content =
             StrTagIRC \o lastEvent.Source \o StrColon \o Last(lastEvent)

\* C8: a Discord message from an author that is no bot, on the channel whose
\* ID SPAWNBOT_DISCORD_CHANNEL_ID names, with a content that does not start
\* with the prefix, has caused exactly one IRC message, to the bridge IRC
\* channel, with the text "[DISCORD] " + author + ": " + content.
C8_DiscordRelayed ==
    ( /\ OnBridgeDiscord
      /\ ~lastEvent.Bot
      /\ ~HasPrefix(lastEvent.Content, Prefix) )
    => lastOut.irc =
         << [ cmd    |-> "PRIVMSG",
              target |-> cfg.BridgeIRCChannel,
              text   |-> StrTagDiscord \o lastEvent.Username \o StrColon
                           \o lastEvent.Content ] >>

\* C8 witness: "die", without the prefix, from carol on the bridge channel
\* is ordinary chat, and IRC has been sent "[DISCORD] carol: die".
C8_Witness ==
    /\ OnBridgeDiscord
    /\ ~lastEvent.Bot
    /\ lastEvent.Content = StrDie
    /\ Len(lastOut.irc) = 1
    /\ lastOut.irc[1].text = StrTagDiscord \o NameCarol \o StrColon \o StrDie
    /\ lastOut.cancels = 0

-----------------------------------------------------------------------------
(* Claims about the Shutdown Signal and the reconnect loop, under Spec *)

\* C9: the Shutdown Signal is live or cancelled, it has made no transition
\* while it is live and exactly one once it is cancelled: it starts live,
\* never returns to live, and all the calls of cancel() together make one
\* transition.
C9_SetOnce ==
    /\ ctxDone \in BOOLEAN
    /\ fired = IF ctxDone THEN 1 ELSE 0

\* C9 witness: cancel() has been called more than once while the process
\* was running.
C9_Witness ==
    /\ Running
    /\ ctxDone
    /\ cancelCalls >= 2
    /\ fired = 1

\* C10 as claimed: no call of Connect has begun in a state where the
\* Shutdown Signal was already cancelled.
C10_Original == lateConnects = 0

\* C10 amended: at most one call of Connect has begun in a state where the
\* Shutdown Signal was already cancelled (the call whose check at the top of
\* the loop had seen the signal live), and none once the loop has stopped.
C10_AtMostOneLateConnect == lateConnects <= 1

\* C10 witness: the loop has stopped after one call of Connect that began
\* with the signal cancelled.
C10_Witness ==
    /\ ctxDone
    /\ ircPc = "stopped"
    /\ lateConnects = 1

-----------------------------------------------------------------------------
(* Claims about the reconnect loop under fairness, under SpecFair *)

\* C11: while the Shutdown Signal is live, every return of Connect, with an
\* error or without, is followed by another call of Connect, unless the
\* signal fires first; the loop holds no count of failures.
C11_ReconnectsForever ==
    (ircPc \in {"afterErr", "afterOk"} /\ ~ctxDone)
        ~> (ircPc = "inConnect" \/ ctxDone)

\* A second call of Connect has begun with the signal still live.
C11_Witness ==
    /\ connects >= 2
    /\ ircPc = "inConnect"
    /\ ~ctxDone

-----------------------------------------------------------------------------
(* Claims about messages off the bridge channel, under SpecRelay *)

\* The handled event is an IRC message to another channel or to the bridge
\* in private.
OffBridgeIRC ==
    /\ LineHandled
    /\ lastEvent.Params[1] # cfg.BridgeIRCChannel

\* C12: an IRC message whose target is not the bridge channel (another
\* channel, or the bridge's nick for a private message) has caused no Discord
\* send, and it has still been dispatched: from a sender other than the
\* bridge, a line that names a registered command with enough arguments has
\* run that command's handler once, so that die has fired the Shutdown
\* Signal and ping has been answered.
C12_OffChannelDispatchedNotRelayed ==
    OffBridgeIRC =>
        /\ lastOut.discord = <<>>
        /\ lastEvent.Source # cfg.IRCNick =>
              \A c \in cmds :
                  ( /\ Invokes(TrimSpace(Last(lastEvent)), c)
                    /\ Len(TokensOf(TrimSpace(Last(lastEvent)))) - 1 >= c.MinArgs )
                  => /\ Len(lastOut.fnCalls) = 1
                     /\ lastOut.fnCalls[1].cmd = c.Name
                     /\ c.Name = StrDie => (lastOut.cancels = 1 /\ ctxDone)
                     /\ c.Name = StrPing =>
                           (Len(lastOut.replies) = 1
                              /\ lastOut.replies[1].text = StrPong)

\* C12 witness: "!die" sent to the bridge in private by another user, with a
\* well-formed configuration: not forwarded, and the signal has fired.
C12_Witness ==
    /\ LineHandled
    /\ ChannelIDWellFormed
    /\ lastEvent.Params[1] = NickBot
    /\ lastEvent.Source = NickBob
    /\ Last(lastEvent) = Bang \o StrDie
    /\ lastOut.discord = <<>>
    /\ Len(lastOut.fnCalls) = 1
    /\ ctxDone

\* The handled event is a Discord message on a channel whose ID is not the
\* configured one.
OffBridgeDiscord ==
    /\ DiscordHandled
    /\ \/ ~ChannelIDWellFormed
       \/ lastEvent.ChannelID # SnowflakeParse(cfg.BridgeDiscordChannelID).id

\* C13: a Discord message whose channel ID differs from the configured
\* bridge channel ID has had no effect: no IRC message, no Discord send, no
\* reply, no call of cancel(), and the Shutdown Signal is still live,
\* whatever the content, "!die" included.
C13_OffChannelNoEffect ==
    OffBridgeDiscord => (lastOut = NoOut /\ ~ctxDone /\ cancelCalls = 0)

\* C13 witness: "!die" from a user on another channel, with a well-formed
\* configuration, has left the signal live.
C13_Witness ==
    /\ OffBridgeDiscord
    /\ ChannelIDWellFormed
    /\ ~lastEvent.Bot
    /\ lastEvent.Content = Bang \o StrDie
    /\ lastOut = NoOut
    /\ ~ctxDone

-----------------------------------------------------------------------------
(* Claims about startup and shutdown, under Spec *)

\* The environment e holds a configuration error: a required variable is
\* missing, the port is no integer, or the Discord channel ID is no number.
ConfigError(e) ==
    \/ e.SPAWNBOT_IRC_SERVER = Unset
    \/ e.SPAWNBOT_IRC_PORT # Unset /\ Atoi(e.SPAWNBOT_IRC_PORT).err
    \/ e.SPAWNBOT_QNET_AUTH = Unset /\ e.QNET_AUTH = Unset
    \/ e.SPAWNBOT_DISCORD_TOKEN = Unset /\ e.SPAWNBOT_TOKEN = Unset
    \/ SnowflakeParse(e.SPAWNBOT_DISCORD_CHANNEL_ID).err
    \/ e.SPAWNBOT_IRC_CHANNEL = Unset

\* C14 as claimed: with a configuration error in the environment the
\* process is still loading its configuration or has exited with a non-zero
\* status from there: the gateway has not been opened, no call of Connect
\* has begun and no handler has run.
C14_ConfigErrorFatal ==
    ConfigError(env) =>
        /\ mainPc \in {"loadConfig", "exitConfig"}
        /\ ExitStatus(mainPc) = IF mainPc = "exitConfig" THEN 1 ELSE 0
        /\ connects = 0
        /\ lastEvent = NoEvent

\* C15: when OpenGateway has failed, the process has exited with a non-zero
\* status, the reconnect loop has never been started, no call of Connect has
\* begun and no handler has run; and nothing follows: no step is taken from
\* there, so the gateway is not opened a second time.
C15_GatewayFailureFatal ==
    /\ [](mainPc = "exitGateway" =>
            /\ ExitStatus(mainPc) # 0
            /\ ~Running
            /\ ircPc = "notStarted"
            /\ connects = 0
            /\ lastEvent = NoEvent)
    /\ [][mainPc # "exitGateway"]_vars

\* C15 witness: OpenGateway has failed with a configuration that loaded.
C15_Witness ==
    /\ mainPc = "exitGateway"
    /\ cfg # NilConfig
    /\ ircPc = "notStarted"

\* C16 as claimed: when main has returned after the Shutdown Signal fired,
\* it has issued the close of the Discord connection and then the IRC quit,
\* and the reconnect loop has stopped.
C16_BothDisconnectedLoopStopped ==
    mainPc = "done" =>
        /\ Len(mainLog) = 2
        /\ mainLog[1] \in DiscordCloseOutcomes
        /\ mainLog[2] = "irc.Quit"
        /\ ircPc = "stopped"

\* The handler of a relayed IRC message has been told the send failed.
FailedSend(out) == Len(out.discord) = 1 /\ ~out.discord[1].ok

\* e is an IRC message the bridge of configuration c relays.
EligibleIRC(c, e) ==
    /\ e.net = "irc"
    /\ e.Command = "PRIVMSG"
    /\ Len(e.Params) > 0
    /\ e.Params[1] = c.BridgeIRCChannel
    /\ e.Source # c.IRCNick
    /\ ~HasPrefix(Last(e), Prefix)

\* e is a Discord message the bridge of configuration c relays.
EligibleDiscord(c, e) ==
    /\ e.net = "discord"
    /\ ~e.Bot
    /\ e.ChannelID = SnowflakeParse(c.BridgeDiscordChannelID).id
    /\ ~HasPrefix(e.Content, Prefix)

\* C17: a step in which the send of a relayed IRC message fails leaves main
\* and the reconnect loop where they were, with the process running and the
\* IRC connection up, and fires the Shutdown Signal only if the message also
\* ran die; and in a state whose last send failed, the next eligible IRC
\* message handled is still sent to Discord in its envelope, and the next
\* eligible Discord message handled is still sent to IRC.
C17_SendFailureDropsOne ==
    [][ LET handledNow == lastEvent' # lastEvent \/ lastOut' # lastOut
        IN  /\ (handledNow /\ FailedSend(lastOut')) =>
                  /\ mainPc' = mainPc
                  /\ ircPc' = ircPc
                  /\ Running'
                  /\ IRCUp'
                  /\ ctxDone' # ctxDone =>
                        (lastOut'.fnCalls # <<>>
                           /\ lastOut'.fnCalls[1].cmd = StrDie)
            /\ (FailedSend(lastOut) /\ handledNow /\ EligibleIRC(cfg, lastEvent')) =>
                  /\ Len(lastOut'.discord) = 1
                  /\ lastOut'.discord[1].content =
                        StrTagIRC \o lastEvent'.Source \o StrColon \o Last(lastEvent')
            /\ (FailedSend(lastOut) /\ handledNow /\ EligibleDiscord(cfg, lastEvent')) =>
                  /\ Len(lastOut'.irc) = 1
                  /\ lastOut'.irc[1].text =
                        StrTagDiscord \o lastEvent'.Username \o StrColon
                           \o lastEvent'.Content
      ]_vars

\* C17 witness: the send of "hi" from bob has failed, and the process runs
\* on with both connections up and the signal live.
C17_Witness ==
    /\ FailedSend(lastOut)
    /\ Last(lastEvent) = StrHi
    /\ mainPc = "waitCtx"
    /\ IRCUp
    /\ ~ctxDone

\* C18: once the process has ended, its exit status is non-zero if
\* LoadConfig failed on the environment or OpenGateway failed, and it is 0
\* if main went through the shutdown sequence, whether or not the close of
\* the Discord connection reported an error; and a status of 0 is the
\* status of such a shutdown only: the Shutdown Signal has fired and both
\* shutdown calls have been issued.
C18_ExitStatus ==
    ~Running =>
        /\ LoadConfig(env).err => ExitStatus(mainPc) # 0
        /\ mainPc = "exitGateway" => ExitStatus(mainPc) # 0
        /\ Len(mainLog) = 2 => ExitStatus(mainPc) = 0
        /\ ExitStatus(mainPc) = 0 =>
              /\ fired = 1
              /\ cfg # NilConfig
              /\ Len(mainLog) = 2
              /\ mainLog[2] = "irc.Quit"

\* C18 witness: main has returned after a shutdown in which the close of the
\* Discord connection reported an error.
C18_Witness ==
    /\ mainPc = "done"
    /\ ExitStatus(mainPc) = 0
    /\ mainLog = <<"discord.Close: error", "irc.Quit">>
    /\ fired = 1

-----------------------------------------------------------------------------
(* LoadConfig alone, on every environment of Envs: one call per behaviour. *)

InitConfig ==
    /\ env \in Envs
    /\ cfg = NilConfig
    /\ cmds = {}
    /\ ctxDone = FALSE
    /\ fired = 0
    /\ cancelCalls = 0
    /\ sigSeen = FALSE
    /\ mainPc = "loadConfig"
    /\ ircPc = "notStarted"
    /\ ircConn = "down"
    /\ lateConnects = 0
    /\ connects = 0
    /\ mainLog = <<>>
    /\ gap = NoGap
    /\ inbox = NoInbox
    /\ arrived = 0
    /\ orderLog = <<>>
    /\ lastEvent = NoEvent
    /\ lastOut = NoOut

NextConfig == LoadConfigFail \/ LoadConfigOk

SpecConfig == InitConfig /\ [][NextConfig]_vars

-----------------------------------------------------------------------------
(* Claims about LoadConfig, under SpecConfig *)

\* A required value is missing from e.
RequiredMissing(e) ==
    \/ e.SPAWNBOT_IRC_SERVER = Unset
    \/ e.SPAWNBOT_QNET_AUTH = Unset /\ e.QNET_AUTH = Unset
    \/ e.SPAWNBOT_DISCORD_TOKEN = Unset /\ e.SPAWNBOT_TOKEN = Unset
    \/ e.SPAWNBOT_DISCORD_CHANNEL_ID = Unset
    \/ e.SPAWNBOT_IRC_CHANNEL = Unset

\* The port of e is set and is no integer.
PortNotInteger(e) ==
    e.SPAWNBOT_IRC_PORT # Unset /\ e.SPAWNBOT_IRC_PORT \notin {PortSet, PortNegative}

\* C19: once LoadConfig has returned, it has failed exactly when a required
\* value is missing or the port is no integer, a malformed channel ID alone
\* being no failure; when it has succeeded, the port is 6667, the nick
\* "SpawnBot", the user "spawnbot" and the name "SpawnBot Go IRC Bot" where
\* the variable is unset and the value of the variable where it is set, the
\* auth and the token are those of the new variable when it is set and of
\* the legacy variable otherwise, and the rest is as the environment has it.
C19_LoadConfig ==
    mainPc # "loadConfig" =>
        /\ (mainPc = "exitConfig") = (RequiredMissing(env) \/ PortNotInteger(env))
        /\ mainPc = "exitConfig" => cfg = NilConfig
        /\ mainPc = "setup" =>
              /\ cfg.IRCServer = env.SPAWNBOT_IRC_SERVER
              /\ cfg.IRCPort = CASE env.SPAWNBOT_IRC_PORT = Unset -> 6667
                                 [] env.SPAWNBOT_IRC_PORT = PortSet -> 7000
                                 [] env.SPAWNBOT_IRC_PORT = PortNegative -> 0 - 1
              /\ cfg.IRCNick = IF env.SPAWNBOT_IRC_NICK = Unset
                               THEN <<"S", "p", "a", "w", "n", "B", "o", "t">>
                               ELSE env.SPAWNBOT_IRC_NICK
              /\ cfg.IRCUser = IF env.SPAWNBOT_IRC_USER = Unset
                               THEN <<"s", "p", "a", "w", "n", "b", "o", "t">>
                               ELSE env.SPAWNBOT_IRC_USER
              /\ cfg.IRCName = IF env.SPAWNBOT_IRC_NAME = Unset
                               THEN DefaultName ELSE env.SPAWNBOT_IRC_NAME
              /\ cfg.QNetAuthPass = IF env.SPAWNBOT_QNET_AUTH # Unset
                                    THEN env.SPAWNBOT_QNET_AUTH ELSE env.QNET_AUTH
              /\ cfg.DiscordToken = IF env.SPAWNBOT_DISCORD_TOKEN # Unset
                                    THEN env.SPAWNBOT_DISCORD_TOKEN
                                    ELSE env.SPAWNBOT_TOKEN
              /\ cfg.BridgeDiscordChannelID = env.SPAWNBOT_DISCORD_CHANNEL_ID
              /\ cfg.BridgeIRCChannel = env.SPAWNBOT_IRC_CHANNEL

\* C19 witness: the auth is set under both names and the new one has won,
\* the token is set under the legacy name only, and the port, the nick, the
\* user and the name are unset and have their defaults.
C19_Witness ==
    /\ mainPc = "setup"
    /\ env.SPAWNBOT_QNET_AUTH = QAuthPass
    /\ env.QNET_AUTH = ValAuthOld
    /\ cfg.QNetAuthPass = QAuthPass
    /\ env.SPAWNBOT_DISCORD_TOKEN = Unset
    /\ cfg.DiscordToken = ValTokenOld
    /\ env.SPAWNBOT_IRC_PORT = Unset
    /\ cfg.IRCPort = 6667
    /\ env.SPAWNBOT_IRC_NICK = Unset
    /\ cfg.IRCNick = NickBot
    /\ cfg.IRCUser = DefaultUser
    /\ cfg.IRCName = DefaultName

-----------------------------------------------------------------------------
(* Claims about the arguments of a command, under SpecDispatch *)

\* The positions of s where a token starts: a character that is no white
\* space, at the start of s or right after white space.
TokenStarts(s) ==
    {i \in 1..Len(s) :
        s[i] \notin WhiteSpace /\ (i = 1 \/ s[i - 1] \in WhiteSpace)}

\* The position where the token starting at i ends.
TokenEnd(s, i) ==
    CHOOSE j \in i..Len(s) :
        /\ \A k \in i..j : s[k] \notin WhiteSpace
        /\ j = Len(s) \/ s[j + 1] \in WhiteSpace

\* The k-th token of s, counted from 1.
TokenAt(s, k) ==
    LET i == CHOOSE i \in TokenStarts(s) :
                 Cardinality({j \in TokenStarts(s) : j < i}) = k - 1
    IN  SubSeq(s, i, TokenEnd(s, i))

\* C20: when a handler has been called, its args are the tokens of the line
\* that follow the command name, one for one and in the order of the line:
\* with the line trimmed and the prefix cut, the first token is the command
\* name, args has one element for each further token, the i-th being the
\* (i+1)-th token, and no element is empty or holds white space.
C20_ArgsAreTokens ==
    (LineHandled /\ lastOut.fnCalls # <<>>) =>
        LET call == lastOut.fnCalls[1]
            rest == CutPrefix(TrimSpace(Last(lastEvent)), Prefix)
            n    == Cardinality(TokenStarts(rest))
        IN  /\ n >= 1
            /\ call.cmd = TokenAt(rest, 1)
            /\ Len(call.args) = n - 1
            /\ \A i \in 1..Len(call.args) :
                  /\ call.args[i] = TokenAt(rest, i + 1)
                  /\ call.args[i] # <<>>
                  /\ \A k \in 1..Len(call.args[i]) :
                        call.args[i][k] \notin WhiteSpace

\* C20 witness: "!ping  die " with two blanks before die and one after it
\* has called ping with the one argument "die".
C20_Witness ==
    /\ LineHandled
    /\ Last(lastEvent) = Bang \o StrPing \o Space \o Space \o StrDie \o Space
    /\ Len(lastOut.fnCalls) = 1
    /\ lastOut.fnCalls[1].cmd = StrPing
    /\ lastOut.fnCalls[1].args = <<StrDie>>

-----------------------------------------------------------------------------
(* Claims about edge cases of the dispatcher, under SpecDispatch *)

\* line is the prefix alone, with nothing but white space around it.
PrefixAlone(line) ==
    \E i \in 1..Len(line) :
        /\ i + Len(Prefix) - 1 <= Len(line)
        /\ SubSeq(line, i, i + Len(Prefix) - 1) = Prefix
        /\ \A j \in 1..Len(line) :
              (j < i \/ j > i + Len(Prefix) - 1) => line[j] \in WhiteSpace

\* C21: when the handled line is the prefix alone, or the prefix with only
\* white space after it (or before it), no handler has run and no reply has
\* been issued, whatever the registry, one that holds a command registered
\* under the empty name included.
C21_PrefixAloneIsUnknown ==
    (LineHandled /\ PrefixAlone(Last(lastEvent))) => lastOut = NoOut

\* C21 witness: "! " handled with a command registered under the empty
\* name: nothing has run.
C21_Witness ==
    /\ LineHandled
    /\ Last(lastEvent) = Bang \o Space
    /\ \E c \in cmds : c.Name = <<>>
    /\ lastOut = NoOut

-----------------------------------------------------------------------------
(* The order of relaying: events enter the inbox of their network as the   *)
(* client library receives them, each library hands its events to the      *)
(* handler one at a time and oldest first, and the handler makes its sends *)
(* before it returns. The two networks run independently of each other.    *)

\* The lines of the chat in this specification.
OrderLines == {StrHi, StrDie, Bang \o StrDie}

\* The relay sends of out, made for the inbox entry m, as log entries.
RelaysOf(m, out) ==
    [i \in 1..Len(out.discord) |->
        [ seq |-> m.seq, from |-> "irc", author |-> m.e.Source,
          content |-> Last(m.e), text |-> out.discord[i].content ]]
    \o
    [i \in 1..Len(out.irc) |->
        [ seq |-> m.seq, from |-> "discord", author |-> m.e.Username,
          content |-> m.e.Content, text |-> out.irc[i].text ]]

LogSendsDeferred(log, sends) == sends \o log

\* The handler calls CreateMessage, or Cmd.Message, itself and returns
\* after the call: its sends follow those of every handler that ran before.
LogSends(log, sends) == log \o sends

InitOrder == InitRelay

\* The IRC client receives a PRIVMSG.
ArriveIRC ==
    /\ Running
    /\ IRCUp
    /\ arrived < MaxArrivals
    /\ arrived' = arrived + 1
    /\ \E e \in IRCEvents(OrderLines) :
          inbox' = [inbox EXCEPT !.irc = Append(@, [seq |-> arrived + 1, e |-> e])]
    /\ UNCHANGED <<env, cfg, cmds, ctxDone, fired, cancelCalls, sigSeen, mainPc,
                   ircPc, ircConn, lateConnects, connects, mainLog, gap,
                   orderLog, lastEvent, lastOut>>

\* The Discord client receives a message.
ArriveDiscord ==
    /\ GatewayOpen
    /\ arrived < MaxArrivals
    /\ arrived' = arrived + 1
    /\ \E e \in DiscordEvents(OrderLines) :
          inbox' = [inbox EXCEPT !.discord = Append(@, [seq |-> arrived + 1, e |-> e])]
    /\ UNCHANGED <<env, cfg, cmds, ctxDone, fired, cancelCalls, sigSeen, mainPc,
                   ircPc, ircConn, lateConnects, connects, mainLog, gap,
                   orderLog, lastEvent, lastOut>>

\* The PRIVMSG handler runs on the oldest IRC event waiting.
HandleIRC ==
    /\ Running
    /\ IRCUp
    /\ inbox.irc # <<>>
    /\ \E sendOk \in BOOLEAN :
          LET m   == Head(inbox.irc)
              out == IRCPrivmsgOut(cfg, cmds, m.e, sendOk)
          IN  /\ Handled(m.e, out)
              /\ orderLog' = LogSends(orderLog, RelaysOf(m, out))
    /\ inbox' = [inbox EXCEPT !.irc = Tail(@)]
    /\ UNCHANGED <<env, cfg, cmds, sigSeen, mainPc, ircPc, ircConn,
                   lateConnects, connects, mainLog, gap, arrived>>

\* The MessageCreate listener runs on the oldest Discord event waiting.
HandleDiscord ==
    /\ GatewayOpen
    /\ inbox.discord # <<>>
    /\ LET m   == Head(inbox.discord)
           out == DiscordMessageOut(cfg, m.e)
       IN  /\ Handled(m.e, out)
           /\ orderLog' = LogSends(orderLog, RelaysOf(m, out))
    /\ inbox' = [inbox EXCEPT !.discord = Tail(@)]
    /\ UNCHANGED <<env, cfg, cmds, sigSeen, mainPc, ircPc, ircConn,
                   lateConnects, connects, mainLog, gap, arrived>>

NextOrder == ArriveIRC \/ ArriveDiscord \/ HandleIRC \/ HandleDiscord

SpecOrder == InitOrder /\ [][NextOrder]_vars

-----------------------------------------------------------------------------
(* Claims about the order and the form of relayed messages, under SpecOrder *)

\* C22: the sends relayed from one network are in the order in which their
\* messages arrived on it: of two log entries from the same network, the
\* earlier send is that of the message that arrived earlier. Nothing is
\* claimed of two sends from different networks.
C22_OrderKeptPerNetwork ==
    \A i, j \in 1..Len(orderLog) :
        (i < j /\ orderLog[i].from = orderLog[j].from)
            => orderLog[i].seq < orderLog[j].seq

\* C22 witness: two different messages of one network have both been
\* relayed, the one that arrived first first.
C22_Witness ==
    /\ Len(orderLog) = 2
    /\ orderLog[1].from = "irc"
    /\ orderLog[2].from = "irc"
    /\ orderLog[1].seq = 1
    /\ orderLog[2].seq = 2
    /\ orderLog[1].content = StrDie
    /\ orderLog[2].content = StrHi

\* C23: the envelope of a relayed message is made of its origin, its author
\* and its content and of nothing else: it is "[IRC] " or "[DISCORD] ",
\* then the author, ": " and the content, so that two sends of the same
\* origin, author and content have the same envelope, whatever happened in
\* between.
C23_EnvelopeDeterministic ==
    /\ \A i \in 1..Len(orderLog) :
          orderLog[i].text =
              (IF orderLog[i].from = "irc" THEN StrTagIRC ELSE StrTagDiscord)
                  \o orderLog[i].author \o StrColon \o orderLog[i].content
    /\ \A i, j \in 1..Len(orderLog) :
          ( /\ orderLog[i].from = orderLog[j].from
            /\ orderLog[i].author = orderLog[j].author
            /\ orderLog[i].content = orderLog[j].content )
          => orderLog[i].text = orderLog[j].text

\* C23 witness: "die" from bob has arrived twice and has been relayed twice,
\* both times as "[IRC] bob: die".
C23_Witness ==
    /\ Len(orderLog) = 2
    /\ orderLog[1].from = "irc"
    /\ orderLog[2].from = "irc"
    /\ orderLog[1].content = StrDie
    /\ orderLog[2].content = StrDie
    /\ orderLog[1].text = StrTagIRC \o NickBob \o StrColon \o StrDie
    /\ orderLog[2].text = orderLog[1].text

-----------------------------------------------------------------------------
(* Claims about the pauses and the end of the reconnect loop, under Spec *)

\* C24: a call of Connect begins either as the first one, or after the last
\* Connect returned an error and the loop then completed a pause of 30
\* seconds, or after it returned nil and the loop then completed a pause of
\* 5 seconds; the 30 second wait is entered only after an error, the 5
\* second wait only after a nil return with the Shutdown Signal live.
C24_PauseBeforeRetry ==
    [][ /\ (ircPc = "callConnect" /\ ircPc' = "inConnect") =>
              \/ connects = 0 /\ gap.ret = "none"
              \/ gap.ret = "err" /\ gap.pause = 30
              \/ gap.ret = "nil" /\ gap.pause = 5
        /\ (ircPc # "wait30" /\ ircPc' = "wait30") =>
              (gap.ret = "err" /\ ~ctxDone)
        /\ (ircPc # "wait5" /\ ircPc' = "wait5") =>
              (gap.ret = "nil" /\ ~ctxDone)
      ]_vars

\* C24 witness: after a Connect that returned nil and a completed pause of 5
\* seconds, the loop is about to call Connect again.
C24_Witness ==
    /\ ircPc = "callConnect"
    /\ connects >= 1
    /\ gap = [ret |-> "nil", pause |-> 5]
    /\ ~ctxDone

\* C25: with the Shutdown Signal fired, a loop that is in one of its waits
\* can leave it at once, without the timer; and from a wait, from the check
\* after Connect returned, from the top of the loop or from its end, it
\* goes only to the top of the loop or to its end, never to another call of
\* Connect, and from its end nowhere.
C25_CancelEndsLoop ==
    /\ []((Running /\ ctxDone /\ ircPc \in {"wait30", "wait5"})
             => ENABLED WaitCancelled)
    /\ [][ /\ (ctxDone /\ ircPc \in {"wait30", "wait5", "afterOk", "loopTop"})
                 => ircPc' \in {ircPc, "loopTop", "stopped"}
           /\ (ctxDone /\ ircPc = "afterErr") => ircPc' \in {ircPc, "stopped"}
           /\ (ctxDone /\ ircPc = "loopTop") => ircPc' \in {ircPc, "stopped"}
           /\ ircPc = "stopped" => ircPc' = "stopped"
         ]_vars

\* C25 witness: the loop has ended after a Connect that returned an error,
\* without completing its pause and without a call of Connect begun after
\* the signal fired.
C25_Witness ==
    /\ Running
    /\ ctxDone
    /\ ircPc = "stopped"
    /\ gap = [ret |-> "err", pause |-> 0]
    /\ lateConnects = 0

-----------------------------------------------------------------------------
(* Claims about the CONNECTED handler, under Spec *)

\* C26: every step that establishes the IRC connection, the first time and
\* on every reconnection, runs the CONNECTED handler, which issues four
\* calls in this order: the message "AUTH <nick> <password>" to the Q
\* service, the mode +x on its own nick, the sleep of one second, the join
\* of the bridge channel; so the join comes after the authentication.
C26_AuthModeSleepJoin ==
    [][ (ircConn = "down" /\ ircConn' = "up") =>
          /\ lastEvent' = ConnectedEvent
          /\ Len(lastOut'.irc) = 4
          /\ lastOut'.irc[1].cmd = "PRIVMSG"
          /\ lastOut'.irc[1].target = "q@CServe.quakenet.org"
          /\ lastOut'.irc[1].text =
                <<"A", "U", "T", "H", " ">> \o cfg.IRCNick \o <<" ">>
                    \o cfg.QNetAuthPass
          /\ lastOut'.irc[2].cmd = "MODE"
          /\ lastOut'.irc[2].target = cfg.IRCNick
          /\ lastOut'.irc[2].text = <<"+", "x">>
          /\ lastOut'.irc[3].cmd = "time.Sleep"
          /\ lastOut'.irc[3].text = <<"1", "s">>
          /\ lastOut'.irc[4].cmd = "JOIN"
          /\ lastOut'.irc[4].target = cfg.BridgeIRCChannel
          /\ lastOut'.discord = <<>>
          /\ lastOut'.cancels = 0
      ]_vars

\* C26 witness: the connection has been established a second time, and the
\* handler has run again.
C26_Witness ==
    /\ connects >= 2
    /\ ircConn = "up"
    /\ lastEvent = ConnectedEvent
    /\ Len(lastOut.irc) = 4
    /\ lastOut.irc[4].cmd = "JOIN"

-----------------------------------------------------------------------------
(* Claims about commands on the bridge channel, under Spec *)

\* The handled line, as the dispatcher reads it, names the command die.
DieInvoked ==
    /\ LineHandled
    /\ HasPrefix(TrimSpace(Last(lastEvent)), Prefix)
    /\ TokensOf(TrimSpace(Last(lastEvent))) # <<>>
    /\ Head(TokensOf(TrimSpace(Last(lastEvent)))) = StrDie

\* C27 as claimed: when the handler of an IRC message has returned, the
\* dispatch of that message is complete, the handler of die having run
\* before the relay was decided; and a die command on the bridge channel,
\* from a sender other than the bridge, has fired the Shutdown Signal and
\* its line has not been relayed.
C27_DispatchThenRelay ==
    (OnBridgeIRC /\ lastEvent.Source # cfg.IRCNick /\ DieInvoked)
        => /\ Len(lastOut.fnCalls) = 1
           /\ lastOut.cancels = 1
           /\ ctxDone
           /\ lastOut.discord = <<>>

\* C29 as claimed: an IRC message that the dispatcher has treated as a
\* command invocation, by running a handler or by issuing a usage reply,
\* has not been relayed to Discord.
C29_CommandNeverRelayed ==
    ( /\ LineHandled
      /\ \/ lastOut.fnCalls # <<>>
         \/ \E i \in 1..Len(lastOut.replies) : IsUsage(lastOut.replies[i]) )
    => lastOut.discord = <<>>

-----------------------------------------------------------------------------
(* Claims about the path of a shutdown, under SpecShutdown *)

\* main has returned after closing Discord and then quitting IRC.
GracefulEnd ==
    /\ mainPc = "done"
    /\ Len(mainLog) = 2
    /\ mainLog[1] \in DiscordCloseOutcomes
    /\ mainLog[2] = "irc.Quit"

\* C28: the step in which the OS signal is received fires the Shutdown
\* Signal and leaves main where it is, the process running; and once the
\* Shutdown Signal has fired, by the OS signal or by die, main comes to
\* close Discord, quit IRC and return, in this order, unless the startup
\* had not finished and fails.
C28_SignalDrivesGracefulPath ==
    /\ [][ (~sigSeen /\ sigSeen') =>
              (ctxDone' /\ mainPc' = mainPc /\ Running' /\ mainLog' = mainLog)
         ]_vars
    /\ (ctxDone /\ Running) ~> (GracefulEnd \/ mainPc \in {"exitSetup", "exitGateway"})
    /\ (ctxDone /\ mainPc \in {"startIRC", "waitCtx"}) ~> GracefulEnd

\* C28 witness: the OS signal has been received, no handler has ever run,
\* so that no die has, and main has gone through the shutdown and returned.
C28_Witness ==
    /\ sigSeen
    /\ lastEvent = NoEvent
    /\ GracefulEnd
    /\ fired = 1

-----------------------------------------------------------------------------
(* Claims about die on Discord, under SpecRelay *)

\* The handled event is a Discord message of a user on the bridge channel.
UserOnBridgeDiscord == OnBridgeDiscord /\ ~lastEvent.Bot

\* C30: a handled Discord message has fired the Shutdown Signal if and only
\* if it comes from an author that is no bot, on the bridge channel, with
\* the content "!die" exactly, and then nothing is sent to IRC; the content
\* "die" from such an author there fires nothing and is sent to IRC as
\* "[DISCORD] " + author + ": die"; a content that goes on after "!die"
\* fires nothing and is not sent to IRC.
C30_DiscordDieExact ==
    DiscordHandled =>
        /\ (lastOut.cancels > 0 \/ ctxDone)
              <=> (UserOnBridgeDiscord /\ lastEvent.Content = Prefix \o StrDie)
        /\ lastOut.cancels > 0 => (lastOut.cancels = 1 /\ lastOut.irc = <<>>)
        /\ (UserOnBridgeDiscord /\ lastEvent.Content = StrDie)
              => /\ lastOut.cancels = 0
                 /\ lastOut.irc =
                      << [ cmd    |-> "PRIVMSG",
                           target |-> cfg.BridgeIRCChannel,
                           text   |-> StrTagDiscord \o lastEvent.Username
                                        \o StrColon \o StrDie ] >>
        /\ ( /\ HasPrefix(lastEvent.Content, Prefix \o StrDie)
             /\ lastEvent.Content # Prefix \o StrDie )
              => (lastOut.cancels = 0 /\ lastOut.irc = <<>>)

\* C30 witness: "!die ping" from carol on the bridge channel has done
\* nothing, and the Shutdown Signal is live.
C30_Witness ==
    /\ UserOnBridgeDiscord
    /\ lastEvent.Content = Prefix \o StrDie \o Space \o StrPing
    /\ lastOut = NoOut
    /\ ~ctxDone

-----------------------------------------------------------------------------
(* The relay with the networks' echo: what the bridge sends to a network
   comes back to it as a message of that network, authored by the bridge *)

\* The messages the sends of out produce on Discord, as the gateway hands
\* them to the listener: authored by the bot account, on the channel of the
\* send. A failed CreateMessage produces none. An echo is no arrival from a
\* user: its entry has the sequence number 0, arrivals count from 1.
EchoesOnDiscord(out) ==
    LET sent == SelectSeq(out.discord, LAMBDA s : s.ok)
    IN  [i \in 1..Len(sent) |->
            [ seq |-> 0,
              e   |-> [ net |-> "discord", Bot |-> TRUE, Username |-> NickBot,
                        ChannelID |-> sent[i].channel,
                        Content |-> sent[i].content ] ]]

\* The PRIVMSG events the server hands back for what c sent to IRC, a
\* relay (target, text) or a reply (origin, text), from the bridge's nick.
EchoesOnIRC(c, target, texts) ==
    [i \in 1..Len(texts) |->
        [ seq |-> 0,
          e   |-> [ net |-> "irc", Command |-> "PRIVMSG", Source |-> c.IRCNick,
                    Params |-> <<target, texts[i]>> ] ]]

\* The PRIVMSG handler on the oldest IRC event waiting; what it sent comes
\* back on the network it was sent to.
HandleIRCEcho ==
    /\ Running
    /\ IRCUp
    /\ inbox.irc # <<>>
    /\ \E sendOk \in BOOLEAN :
          LET m   == Head(inbox.irc)
              out == IRCPrivmsgOut(cfg, cmds, m.e, sendOk)
          IN  /\ Handled(m.e, out)
              /\ orderLog' = LogSends(orderLog, RelaysOf(m, out))
              /\ inbox' =
                   [ irc     |-> Tail(inbox.irc) \o
                                 EchoesOnIRC(cfg, m.e.Params[1],
                                    [i \in 1..Len(out.replies) |-> out.replies[i].text]),
                     discord |-> inbox.discord \o EchoesOnDiscord(out) ]
    /\ UNCHANGED <<env, cfg, cmds, sigSeen, mainPc, ircPc, ircConn,
                   lateConnects, connects, mainLog, gap, arrived>>

\* The MessageCreate listener on the oldest Discord event waiting; what it
\* sent comes back on IRC.
HandleDiscordEcho ==
    /\ GatewayOpen
    /\ inbox.discord # <<>>
    /\ LET m   == Head(inbox.discord)
           out == DiscordMessageOut(cfg, m.e)
       IN  /\ Handled(m.e, out)
           /\ orderLog' = LogSends(orderLog, RelaysOf(m, out))
           /\ inbox' =
                [ irc     |-> inbox.irc \o
                              EchoesOnIRC(cfg, cfg.BridgeIRCChannel,
                                 [i \in 1..Len(out.irc) |-> out.irc[i].text]),
                  discord |-> Tail(inbox.discord) ]
    /\ UNCHANGED <<env, cfg, cmds, sigSeen, mainPc, ircPc, ircConn,
                   lateConnects, connects, mainLog, gap, arrived>>

NextLoop == ArriveIRC \/ ArriveDiscord \/ HandleIRCEcho \/ HandleDiscordEcho

SpecLoop == InitOrder /\ [][NextLoop]_vars

-----------------------------------------------------------------------------
(* Claims about feedback between the networks, under SpecLoop *)

\* C31: the relay does not loop. The handler that has just run has made at
\* most one relay send (a CreateMessage or a message to the bridge IRC
\* channel; replies of commands to their origin are not relay sends); no
\* two relay sends are made for the same inbound message; none is made for
\* the echo of a send, nor for a message authored by the bridge's IRC nick
\* or by a bot; so the relay sends are at most as many as the messages that
\* arrived from the networks' users.
C31_RelayCannotLoop ==
    /\ lastEvent # ConnectedEvent
          => Len(lastOut.discord) + Len(lastOut.irc) <= 1
    /\ \A i, j \in 1..Len(orderLog) :
          orderLog[i].seq = orderLog[j].seq => i = j
    /\ \A i \in 1..Len(orderLog) :
          /\ orderLog[i].seq > 0
          /\ orderLog[i].from = "irc" => orderLog[i].author # cfg.IRCNick
    /\ (lastEvent.net = "discord" /\ lastEvent.Bot) => lastOut.irc = <<>>
    /\ Len(orderLog) <= arrived

\* C31 witness: the echo of a relay has been handled on each network: the
\* last event is a PRIVMSG from the bridge's nick with a "[DISCORD] " text,
\* the "**<...>**" message of the bot has been handled before it, and the log
\* holds the two relay sends and no more.
C31_Witness ==
    /\ lastEvent.net = "irc"
    /\ lastEvent.Command = "PRIVMSG"
    /\ lastEvent.Source = cfg.IRCNick
    /\ HasPrefix(Last(lastEvent), StrTagDiscord)
    /\ lastOut = NoOut
    /\ Len(orderLog) = 2
    /\ orderLog[1].from = "irc"
    /\ orderLog[2].from = "discord"
    /\ inbox = NoInbox
    /\ arrived = 2

-----------------------------------------------------------------------------
(* Claims about termination, under SpecShutdown: main's own steps are taken,
   nothing is asked of the reconnect loop or of Connect *)

\* main is past startup and has not returned.
MainShuttingDown == mainPc \in {"waitCtx", "closeDiscord", "quitIRC"}

\* C32: once the Shutdown Signal has fired with main waiting on it, main
\* comes to return; and at each of its steps on the way
\* main can go on while the reconnect loop stays where it is, whatever that
\* place is, so that main never waits for the loop.
C32_TerminatesWithoutLoop ==
    /\ (ctxDone /\ mainPc = "waitCtx") ~> (mainPc = "done")
    /\ []( (ctxDone /\ MainShuttingDown)
              => ENABLED (Next /\ mainPc' # mainPc /\ ircPc' = ircPc) )

\* C32 witness: main has returned while the connection is up and Connect
\* has not returned, the Shutdown Signal having fired by the OS signal.
C32_Witness ==
    /\ mainPc = "done"
    /\ ircPc = "inConnect"
    /\ ircConn = "up"
    /\ sigSeen
    /\ fired = 1

====
